---------------------------- MODULE Spec2Model ----------------------------
(***************************************************************************)
(* A model of phpbb-scraper.py: the document merger (PageMerger), the      *)
(* fetch worker with its retry loop (send_worker), the frontier            *)
(* (RequestsIter) and the orchestration of the two pools (PhpBBScraper     *)
(* .scrape and main).                                                      *)
(*                                                                         *)
(* Three specifications share the variables:                               *)
(*   SpecMerge  parse workers stepping through PageMerger.add / append     *)
(*              instruction by instruction, then force_save and stats;     *)
(*   SpecRetry  one send_worker call, attempt by attempt;                  *)
(*   Spec       the whole crawl of a small site (FairSpec adds the         *)
(*              fairness of the threads and pool workers).                 *)
(***************************************************************************)
EXTENDS Integers, Sequences, FiniteSets, Bags, TLC

VARIABLES
  pages,      \* PageMerger._pages: key -> PendingDocument, or NoDoc
  lock,       \* PageMerger._lock: the set of its holders ({} when free)
  saved,      \* the calls of the save handler so far, in order
  wk,         \* SpecMerge: the parse workers inside add / append
  mg,         \* SpecMerge: the main process after the pool was joined
  sw,         \* SpecRetry: the frame of one send_worker call
  site,       \* the forum being crawled: its listing pages and its topics
  opts,       \* scraper_opts, as far as the crawl reads them
  disk,       \* the output directory: topic documents and media files
  topics,     \* PhpBBScraper._topics: the seed tasks
  queue,      \* RequestsIter._queue
  enqueued,   \* RequestsIter._enqueued
  processed,  \* RequestsIter._processed
  dequeued,   \* how many tasks __next__ has handed out (history)
  gen,        \* the frame of the generator PhpBBScraper.scrape()
  fetching,   \* the tasks handed to send_worker, result not yet taken
  parsing,    \* the tuples handed to scrape_worker, result not yet returned
  results,    \* results of scrape_worker the main loop has not taken yet
  mn,         \* the frame of main
  faults      \* how many failures the site has produced so far

mergerVars == <<pages, lock, saved>>

crawlVars ==
  <<site, opts, disk, topics, queue, enqueued, processed, dequeued, gen,
    fetching, parsing, results, mn, faults>>

vars == <<pages, lock, saved, wk, mg, sw, crawlVars>>

--------------------------------------------------------------------------
(* Bounds of the model *)

\* the largest total (size) of a document in SpecMerge
MaxSize == 4
\* the number of parse workers in SpecMerge
NumWorkers == 3
\* the largest number of posts of a topic of the crawled site
MaxPosts == 2
\* the number of posts the site shows on one topic page
PostsPerPage == 1
\* the largest number of failures (fetch, parse, filesystem) in one crawl
MaxFaults == 1
\* the processes of main's pool (max_workers)
MaxParseWorkers == 1

--------------------------------------------------------------------------
(* PageMerger: the data *)

\* an empty slot of v['data'] ([None]*size)
None == 0

\* the keys of the merger map (topic ids)
Keys == {1, 2}

\* no entry for the key in self._pages
NoDoc == [data |-> <<>>, remain |-> 0, open |-> FALSE]

\* the entry add() stores: size empty slots, remain = size
NewDoc(size) ==
  [data |-> [i \in 1..size |-> None], remain |-> size, open |-> TRUE]

Min(a, b) == IF a < b THEN a ELSE b

\* (mutant of SliceAssign) the offset ignored: data written at the front
SliceAssignNoOffset(d, offset, data) ==
  data \o SubSeq(d, Min(Len(data), Len(d)) + 1, Len(d))

\* v['data'][offset:offset+len(data)] = data, with Python's clamping of a
\* slice to the list: the slice is replaced by data, whatever their lengths
SliceAssign(d, offset, data) ==
  LET start == Min(offset, Len(d))
      stop  == Min(offset + Len(data), Len(d))
  IN  SubSeq(d, 1, start) \o data \o SubSeq(d, stop + 1, Len(d))

\* v['remain'] -= len(data)
RemainAfter(remain, data) == remain - Len(data)

\* the two statements of append() on its copy v of the entry
AppendDoc(v, data, offset) ==
  [v EXCEPT !.data = SliceAssign(@, offset, data),
            !.remain = RemainAfter(@, data)]

\* if v['remain'] <= 0
Complete(v) == v.remain <= 0

\* (mutant of FilterNone) the empty slots kept
FilterNoneKeepsAll(d) == d

\* list(filter(None, v['data']))
RECURSIVE FilterNone(_)
FilterNone(d) ==
  IF d = <<>> THEN <<>>
  ELSE IF Head(d) = None THEN FilterNone(Tail(d))
       ELSE <<Head(d)>> \o FilterNone(Tail(d))

\* one call of v['class'].save(id=key, data=data, ...)
SaveCall(key, data, forced) == [id |-> key, data |-> data, forced |-> forced]

\* the open documents, as stats() lists them
OpenKeys == {k \in Keys : pages[k].open}

\* the number of calls of the save handler for a key
SaveCount(k) == Cardinality({i \in DOMAIN saved : saved[i].id = k})

--------------------------------------------------------------------------
(* PageMerger: add, append, force_save and stats, statement by statement   *)
(* (SpecMerge).  Worker 1 scrapes the first page of the topic (add), the   *)
(* others its sibling pages (append), which exist once the first page's    *)
(* scrape has returned them.                                               *)

Workers == 1..NumWorkers

\* the holder id of the main process
MainId == 0

\* (mutant of CanAcquire) acquire() returns at once: no mutual exclusion
CanAcquireAlways(l) == TRUE

\* (mutant of CanAcquire) the lock admits two holders
CanAcquireSecond(l) == Cardinality(l) < 2

\* self._lock.acquire() returns only when nobody holds the lock
CanAcquire(l) == l = {}

\* self._lock.release()
Released(l, w) == l \ {w}

RECURSIVE Sum(_)
Sum(s) == IF s = <<>> THEN 0 ELSE Head(s) + Sum(Tail(s))

\* the page sizes of one document: how many items each page carries
PageSizes ==
  {s \in UNION {[1..k -> 1..MaxSize] : k \in 1..NumWorkers} : Sum(s) <= MaxSize}

\* the items of a document, by index: item i of key k
Item(k, i) == 10 * k + i

\* the items a page carries: n items from index offset on
PageItems(k, offset, n) == [j \in 1..n |-> Item(k, offset + j - 1)]

\* the whole document, in order
WholeDoc(k, n) == PageItems(k, 0, n)

IdleWorker ==
  [pc |-> "idle", key |-> 0, data |-> <<>>, offset |-> 0, size |-> 0,
   lead |-> 0, v |-> NoDoc]

NoPages == [k \in Keys |-> NoDoc]

NoSend == [pc |-> "off"]

\* the crawl is not part of SpecMerge and SpecRetry
NoCrawl ==
  /\ site = [posts |-> <<>>, listing |-> <<>>]
  /\ opts = [save_media |-> FALSE, force |-> 0, scraped_topics |-> {}]
  /\ disk = [docs |-> {}, files |-> {}]
  /\ topics = <<>>
  /\ queue = <<>>
  /\ enqueued = 0
  /\ processed = 0
  /\ dequeued = 0
  /\ gen = [pc |-> "off", open |-> FALSE, lost |-> 0]
  /\ fetching = <<>>
  /\ parsing = <<>>
  /\ results = <<>>
  /\ mn = [pc |-> "off", pages |-> <<>>, stats |-> {}]
  /\ faults = 0

\* the worker scraping page p of a document whose pages carry s[1], s[2], ...
\* items; the document's first page is scraped by worker lead
PageWorker(k, s, p, lead) ==
  [pc     |-> IF p = 1 THEN "add_acquire" ELSE "wait",
   key    |-> k,
   data   |-> PageItems(k, Sum(SubSeq(s, 1, p - 1)), s[p]),
   offset |-> Sum(SubSeq(s, 1, p - 1)),
   size   |-> Sum(s),
   lead   |-> lead,
   v      |-> NoDoc]

\* one or two documents (keys 1 and 2), one worker per page
InitMerge ==
  /\ NoCrawl
  /\ pages = NoPages
  /\ lock = {}
  /\ saved = <<>>
  /\ sw = NoSend
  /\ mg = [pc |-> "pool", stats |-> {}]
  /\ \E s1 \in PageSizes, s2 \in PageSizes \cup {<<>>} :
       /\ Len(s1) + Len(s2) <= NumWorkers
       /\ wk = [w \in Workers |->
                  IF w <= Len(s1) THEN PageWorker(1, s1, w, 1)
                  ELSE IF w <= Len(s1) + Len(s2)
                       THEN PageWorker(2, s2, w - Len(s1), Len(s1) + 1)
                       ELSE IdleWorker]

\* add(): self._lock.acquire()
AddAcquire(w) ==
  /\ wk[w].pc = "add_acquire"
  /\ CanAcquire(lock)
  /\ lock' = lock \cup {w}
  /\ wk' = [wk EXCEPT ![w].pc = "add_store"]
  /\ UNCHANGED <<pages, saved, mg, sw, crawlVars>>

\* add(): self._pages[key] = {...}
AddStore(w) ==
  /\ wk[w].pc = "add_store"
  /\ pages' = [pages EXCEPT ![wk[w].key] = NewDoc(wk[w].size)]
  /\ wk' = [wk EXCEPT ![w].pc = "add_release"]
  /\ UNCHANGED <<lock, saved, mg, sw, crawlVars>>

\* add(): self._lock.release(); return self.append(key, data, 0)
AddRelease(w) ==
  /\ wk[w].pc = "add_release"
  /\ lock' = Released(lock, w)
  /\ wk' = [wk EXCEPT ![w].pc = "acquire"]
  /\ UNCHANGED <<pages, saved, mg, sw, crawlVars>>

\* a sibling page is scraped once the first page's scrape has returned it
Dispatch(w) ==
  /\ wk[w].pc = "wait"
  /\ wk[wk[w].lead].pc = "done"
  /\ wk' = [wk EXCEPT ![w].pc = "acquire"]
  /\ UNCHANGED <<pages, lock, saved, mg, sw, crawlVars>>

\* a sibling page never contributes: its fetch or its parse failed
Drop(w) ==
  /\ wk[w].pc = "wait"
  /\ wk[wk[w].lead].pc = "done"
  /\ wk' = [wk EXCEPT ![w].pc = "dropped"]
  /\ UNCHANGED <<pages, lock, saved, mg, sw, crawlVars>>

\* append(): self._lock.acquire()
AppendAcquire(w) ==
  /\ wk[w].pc = "acquire"
  /\ CanAcquire(lock)
  /\ lock' = lock \cup {w}
  /\ wk' = [wk EXCEPT ![w].pc = "read"]
  /\ UNCHANGED <<pages, saved, mg, sw, crawlVars>>

\* append(): v = self._pages[key]; KeyError when the key has no entry
AppendRead(w) ==
  /\ wk[w].pc = "read"
  /\ wk' = [wk EXCEPT ![w].pc = IF pages[wk[w].key].open THEN "write"
                                ELSE "raised",
                      ![w].v = pages[wk[w].key]]
  /\ UNCHANGED <<pages, lock, saved, mg, sw, crawlVars>>

\* append(): the slice assignment, the decrement and self._pages[key] = v
AppendWrite(w) ==
  /\ wk[w].pc = "write"
  /\ LET v == AppendDoc(wk[w].v, wk[w].data, wk[w].offset)
     IN  /\ wk' = [wk EXCEPT ![w].pc = "check", ![w].v = v]
         /\ pages' = [pages EXCEPT ![wk[w].key] = v]
  /\ UNCHANGED <<lock, saved, mg, sw, crawlVars>>

\* append(): if v['remain'] <= 0: save(...); del self._pages[key]
AppendCheck(w) ==
  /\ wk[w].pc = "check"
  /\ IF Complete(wk[w].v)
     THEN /\ saved' = Append(saved, SaveCall(wk[w].key, wk[w].v.data, FALSE))
          /\ pages' = [pages EXCEPT ![wk[w].key] = NoDoc]
     ELSE UNCHANGED <<saved, pages>>
  /\ wk' = [wk EXCEPT ![w].pc = "release"]
  /\ UNCHANGED <<lock, mg, sw, crawlVars>>

\* append(): self._lock.release(); return media
AppendRelease(w) ==
  /\ wk[w].pc = "release"
  /\ lock' = Released(lock, w)
  /\ wk' = [wk EXCEPT ![w].pc = "done"]
  /\ UNCHANGED <<pages, saved, mg, sw, crawlVars>>

WorkersFinished ==
  \A w \in Workers : wk[w].pc \in {"idle", "done", "dropped", "raised"}

\* main: pool.close(); pool.join(), then scraper.force_merge()
PoolJoin ==
  /\ mg.pc = "pool"
  /\ WorkersFinished
  /\ mg' = [mg EXCEPT !.pc = "fs_acquire"]
  /\ UNCHANGED <<pages, lock, saved, wk, sw, crawlVars>>

\* force_save(): self._lock.acquire()
ForceAcquire ==
  /\ mg.pc = "fs_acquire"
  /\ CanAcquire(lock)
  /\ lock' = lock \cup {MainId}
  /\ mg' = [mg EXCEPT !.pc = "fs_save"]
  /\ UNCHANGED <<pages, saved, wk, sw, crawlVars>>

\* the orders in which a loop over a set of keys may visit them
Orders(S) ==
  {o \in [1..Cardinality(S) -> S] : \A i, j \in DOMAIN o : i # j => o[i] # o[j]}

\* force_save(): the calls of the loop over self._pages.items(): each entry's
\* data without its empty slots; no entry is deleted or stored back
ForceSaveCalls(pgs, order) ==
  [i \in DOMAIN order |->
     SaveCall(order[i], FilterNone(pgs[order[i]].data), TRUE)]

\* self._pages after force_save()
ForceSavePages(pgs) == pgs

ForceSaveBody ==
  /\ mg.pc = "fs_save"
  /\ \E order \in Orders(OpenKeys) :
       saved' = saved \o ForceSaveCalls(pages, order)
  /\ pages' = ForceSavePages(pages)
  /\ mg' = [mg EXCEPT !.pc = "fs_release"]
  /\ UNCHANGED <<lock, wk, sw, crawlVars>>

\* force_save(): self._lock.release()
ForceRelease ==
  /\ mg.pc = "fs_release"
  /\ lock' = Released(lock, MainId)
  /\ mg' = [mg EXCEPT !.pc = "stats"]
  /\ UNCHANGED <<pages, saved, wk, sw, crawlVars>>

\* stats(): one entry per open document
StatsOf(pgs) ==
  {[key |-> k, remain |-> pgs[k].remain, size |-> Len(pgs[k].data)] :
     k \in {x \in Keys : pgs[x].open}}

\* main: scraper.stats(), under the lock
Stats ==
  /\ mg.pc = "stats"
  /\ CanAcquire(lock)
  /\ mg' = [mg EXCEPT !.pc = "end", !.stats = StatsOf(pages)]
  /\ UNCHANGED <<pages, lock, saved, wk, sw, crawlVars>>

NextMerge ==
  \/ \E w \in Workers :
       \/ AddAcquire(w) \/ AddStore(w) \/ AddRelease(w)
       \/ Dispatch(w) \/ Drop(w)
       \/ AppendAcquire(w) \/ AppendRead(w) \/ AppendWrite(w)
       \/ AppendCheck(w) \/ AppendRelease(w)
  \/ PoolJoin \/ ForceAcquire \/ ForceSaveBody \/ ForceRelease \/ Stats

SpecMerge == InitMerge /\ [][NextMerge]_vars

--------------------------------------------------------------------------
(* send_worker: one call, attempt by attempt (SpecRetry) *)

\* scraper_opts['max_retries']
max_retries == 3

\* the kinds of task (the classes with a request() method)
TaskKinds == {"forum", "topic", "users", "password", "file"}

\* what one call of r.request() does: it returns a response, or raises
Transient == {"ConnectionError", "ConnectTimeout"}
NonRetryable == {"InvalidSchema", "MissingSchema"}
RequestOutcomes ==
  {"status200", "statusOther", "IndexError", "ReadTimeout"}
    \cup Transient \cup NonRetryable

\* (mutant of RetryAllowed) one attempt too many
RetryAllowedOffByOne(retry) == retry <= max_retries

\* while retry < scraper_opts['max_retries']
RetryAllowed(retry) == retry < max_retries

\* hasattr(r, 'url') and r.url.endswith('.html'): no task class has an
\* attribute named url (they have _url), so the test is false for all kinds
LogsAtDebug(kind) == FALSE

\* the severity of 'After {} requests failed to fetch {}'
ExhaustedSeverity(kind) == IF LogsAtDebug(kind) THEN "debug" ELSE "warning"

InitRetry ==
  /\ NoCrawl
  /\ pages = NoPages
  /\ lock = {}
  /\ saved = <<>>
  /\ wk = [w \in Workers |-> IdleWorker]
  /\ mg = [pc |-> "off", stats |-> {}]
  /\ \E kind \in TaskKinds :
       sw = [pc |-> "while", r |-> kind, retry |-> 0, tries |-> <<>>,
             result |-> "none", log |-> "none"]

\* the loop test; after the loop: the log line and return None, None
SendWhile ==
  /\ sw.pc = "while"
  /\ IF RetryAllowed(sw.retry)
     THEN sw' = [sw EXCEPT !.pc = "request"]
     ELSE sw' = [sw EXCEPT !.pc = "returned", !.result = "None",
                           !.log = ExhaustedSeverity(sw.r)]
  /\ UNCHANGED <<pages, lock, saved, wk, mg, crawlVars>>

\* (mutant of AfterRequest) every exception is retried
AfterRequestRetriesAll(f, o) ==
  LET g == [f EXCEPT !.tries = Append(@, [task |-> f.r, outcome |-> o])]
  IN  IF o \in {"status200", "statusOther"}
      THEN [g EXCEPT !.pc = "returned", !.result = o]
      ELSE [g EXCEPT !.pc = "while", !.retry = @ + 1]

\* what send_worker does with the outcome o of r.request()
AfterRequest(f, o) ==
  LET g == [f EXCEPT !.tries = Append(@, [task |-> f.r, outcome |-> o])]
  IN  CASE o \in {"status200", "statusOther"} ->
             [g EXCEPT !.pc = "returned", !.result = o]
        [] o \in Transient ->
             [g EXCEPT !.pc = "while", !.retry = @ + 1]
        [] o \in NonRetryable ->
             [g EXCEPT !.pc = "returned", !.result = "None", !.log = "debug"]
        [] o = "IndexError" ->
             [g EXCEPT !.pc = "exit", !.log = "error"]
        [] OTHER ->
             [g EXCEPT !.pc = "raised", !.result = o]

\* what r.request() of a task of the kind can do.  The get() of the other
\* kinds goes through the session's adapter, mounted with max_retries, which
\* reports a read timeout as a ConnectionError once its own retries are used
\* up; the password task calls requests.post(), which raises ReadTimeout.
OutcomesOf(kind) ==
  IF kind = "password" THEN RequestOutcomes
  ELSE RequestOutcomes \ {"ReadTimeout"}

\* req = r.request(): one attempt
SendRequest ==
  /\ sw.pc = "request"
  /\ \E o \in OutcomesOf(sw.r) : sw' = AfterRequest(sw, o)
  /\ UNCHANGED <<pages, lock, saved, wk, mg, crawlVars>>

NextRetry == SendWhile \/ SendRequest

SpecRetry == InitRetry /\ [][NextRetry]_vars

--------------------------------------------------------------------------
(* The crawled site and what the page classes make of its pages *)

\* the topic ids of the site (the keys of the merger)
Topics == Keys

\* the id of the one forum of the site
ForumId == 1

\* a task: an object of one of the page classes
Task(kind, id, start) == [kind |-> kind, id |-> id, start |-> start]

\* obj of a tuple whose send_worker result was (None, None)
NoTask == Task("none", 0, 0)

\* the sites: the number of posts of each topic, and the topics each listing
\* page of the forum links to (a topic may be linked from several pages, as
\* an announcement is)
Sites ==
  {[posts |-> ps, listing |-> ls] :
     ps \in [Topics -> 1..MaxPosts],
     ls \in UNION {[1..n -> SUBSET Topics] : n \in 1..2}}

\* the number of pages of a listing of n elements, per to a page
PageCount(n, per) == (n + per - 1) \div per

\* the start offsets of the links of the pagination bar: pages 2 .. last
PageLinks(pagecount, per) == {per * (i - 1) : i \in 2..pagecount}

\* min(deltas): the smallest difference of two neighbours of sorted(starts)
MinDelta(starts) ==
  LET pairs  == {p \in starts \X starts :
                   /\ p[1] < p[2]
                   /\ ~\E c \in starts : p[1] < c /\ c < p[2]}
      deltas == {p[2] - p[1] : p \in pairs}
  IN  CHOOSE d \in deltas : \A e \in deltas : d <= e

\* _pagination(): links are the start offsets of the page links, last the
\* number on the last link, count the number in the summary text
Pagination(links, last, count) ==
  [has_start   |-> links # {},
   pages_count |-> IF links = {} THEN 1 ELSE last,
   start_value |-> IF links = {} THEN count ELSE MinDelta({0} \cup links)]

\* the elements of a set of numbers in ascending order
RECURSIVE Ascending(_)
Ascending(S) ==
  IF S = {} THEN <<>>
  ELSE LET m == CHOOSE x \in S : \A y \in S : x <= y
       IN  <<m>> \o Ascending(S \ {m})

\* the number of topics the forum shows on one listing page
TopicsPerPage == Cardinality(Topics)

\* the listing page a forum task fetches
ListingPage(st, start) == st.listing[start \div TopicsPerPage + 1]

\* opts['scraped_topics'] after __init__: _load_state() runs unless force
LoadState(force, d) == IF force = 0 THEN d.docs ELSE {}

\* (mutant of Siblings) the range taken through pages_count
SiblingsThroughLast(kind, id, pg) ==
  IF ~pg.has_start THEN <<>>
  ELSE [i \in 1..pg.pages_count |-> Task(kind, id, i * pg.start_value)]

\* the sibling pages a first page returns: range(1, pages_count)
Siblings(kind, id, pg) ==
  IF ~pg.has_start THEN <<>>
  ELSE [i \in 1..(pg.pages_count - 1) |-> Task(kind, id, i * pg.start_value)]

\* PhpBBForum.scrape for a listing page of forum id > 0 without a wall
ForumScrape(st, scraped, task) ==
  LET here  == Ascending(ListingPage(st, task.start) \ scraped)
      found == [i \in DOMAIN here |-> Task("topic", here[i], 0)]
      n     == Len(st.listing)
      pg    == Pagination(PageLinks(n, TopicsPerPage), n, n * TopicsPerPage)
  IN  IF task.start # 0 THEN found
      ELSE found \o Siblings("forum", task.id, pg)

\* self._posts after _parse_page() of a topic page
TopicPosts(st, task) ==
  PageItems(task.id, task.start,
            Min(PostsPerPage, st.posts[task.id] - task.start))

\* _pagination() of a topic page
TopicPagination(st, task) ==
  LET n == st.posts[task.id]
  IN  Pagination(PageLinks(PageCount(n, PostsPerPage), PostsPerPage),
                 PageCount(n, PostsPerPage), n)

\* d['files'] of a post: the first post of topic 1 carries one attachment
PostFiles(item) == IF item = Item(1, 0) THEN {item} ELSE {}

\* PhpBBTopic.save, the media it collects: a FileSaver for every file of the
\* data that is not on disk, or for every file with force == 2
SaveMedia(o, d, data) ==
  IF ~o.save_media THEN <<>>
  ELSE LET fs == UNION {PostFiles(data[i]) :
                          i \in {j \in DOMAIN data : data[j] # None}}
           wanted == {f \in fs : f \notin d.files \/ o.force = 2}
           order == Ascending(wanted)
       IN  [i \in DOMAIN order |-> Task("file", order[i], 0)]

\* (mutant of SaveReturns) the media returned whether the document was
\* written or not
SaveReturnsMediaAnyway(o, d, data, fsok) == SaveMedia(o, d, data)

\* PhpBBTopic.save, what it returns: the media, or [] when the directory or
\* the file cannot be written
SaveReturns(o, d, data, fsok) == IF fsok THEN SaveMedia(o, d, data) ELSE <<>>

\* PhpBBTopic.save, the output directory afterwards
SaveDisk(d, key, fsok) == IF fsok THEN [d EXCEPT !.docs = @ \cup {key}] ELSE d

--------------------------------------------------------------------------
(* The crawl: RequestsIter, PhpBBScraper.scrape() and main (Spec) *)

\* what send_worker hands back to scrape(): a response with status 200, a
\* response with another status, or (None, None)
FetchResults == {"status200", "statusOther", "None"}

\* RequestsIter.is_done()
IsDone(q, proc, enq) == q = <<>> /\ ~(proc < enq)

\* (mutant of Processed) the call forgotten
ProcessedForgotten(proc) == proc

\* RequestsIter.processed()
Processed(proc) == proc + 1

\* _parse_arg(): the tasks of the forum and topic arguments
SeedTasks(forums, tops, scraped) ==
  [i \in DOMAIN forums |-> Task("forum", forums[i], 0)]
    \o LET ts == Ascending(tops \ scraped)
       IN  [i \in DOMAIN ts |-> Task("topic", ts[i], 0)]

\* s without its i-th element
RemoveAt(s, i) == SubSeq(s, 1, i - 1) \o SubSeq(s, i + 1, Len(s))

\* the size of the thread pool of scrape(): the default of --pool-size
pool_size == 1

\* the tasks send_worker is running: the pool takes them in queue order
ActiveFetch == 1..Min(pool_size, Len(fetching))

\* the tuples scrape_worker is running: main's pool takes them in the order
\* the generator yields them
ActiveParse == 1..Min(MaxParseWorkers, Len(parsing))

\* the result of one scrape_worker call
ResultNone == [kind |-> "None", pages |-> <<>>]
ResultRaise == [kind |-> "raise", pages |-> <<>>]
ResultPages(ps) == [kind |-> "pages", pages |-> ps]

\* scrape_worker: return None if obj.scrape() returned nothing, else pages
ScrapeWorkerReturns(ps) == IF Len(ps) = 0 THEN ResultNone ELSE ResultPages(ps)

\* main has not died of an exception
Running == mn.pc \notin {"off", "crashed"}

Init ==
  /\ pages = NoPages
  /\ lock = {}
  /\ saved = <<>>
  /\ wk = [w \in Workers |-> IdleWorker]
  /\ mg = [pc |-> "off", stats |-> {}]
  /\ sw = NoSend
  /\ site \in Sites
  /\ disk = [docs |-> {}, files |-> {}]
  /\ \E m \in BOOLEAN :
       opts = [save_media |-> m, force |-> 0,
               scraped_topics |-> LoadState(0, disk)]
  /\ \E forums \in {<<>>, <<ForumId>>}, tops \in {{}, {1}} :
       /\ forums # <<>> \/ tops # {}
       /\ topics = SeedTasks(forums, tops, opts.scraped_topics)
  /\ queue = <<>>
  /\ enqueued = 0
  /\ processed = 0
  /\ dequeued = 0
  /\ gen = [pc |-> "off", open |-> FALSE, lost |-> 0]
  /\ fetching = <<>>
  /\ parsing = <<>>
  /\ results = <<>>
  /\ mn = [pc |-> "p_start", pages |-> <<>>, stats |-> {}]
  /\ faults = 0

\* main: pool.imap_unordered(scrape_worker, scraper.scrape()): a new generator
MainStart ==
  /\ mn.pc \in {"p_start", "m_start"}
  /\ gen' = [pc |-> "enqueue", open |-> FALSE, lost |-> 0]
  /\ mn' = [mn EXCEPT !.pc = IF mn.pc = "p_start" THEN "p_for" ELSE "m_for"]
  /\ UNCHANGED <<mergerVars, wk, mg, sw, site, opts, disk, topics, queue,
                 enqueued, processed, dequeued, fetching, parsing, results,
                 faults>>

\* scrape(): self.enqueue(self._topics); self._topics = []; the thread pool
GenEnqueue ==
  /\ Running
  /\ gen.pc = "enqueue"
  /\ queue' = queue \o topics
  /\ enqueued' = enqueued + Len(topics)
  /\ topics' = <<>>
  /\ gen' = [gen EXCEPT !.pc = "while"]
  /\ UNCHANGED <<mergerVars, wk, mg, sw, site, opts, disk, processed,
                 dequeued, fetching, parsing, results, mn, faults>>

\* scrape(): while not self._queue.is_done(): a new imap_unordered over the
\* queue; after the loop the generator is exhausted
GenWhile ==
  /\ Running
  /\ gen.pc = "while"
  /\ gen' = IF IsDone(queue, processed, enqueued)
            THEN [pc |-> "end", open |-> FALSE, lost |-> 0]
            ELSE [pc |-> "for", open |-> TRUE, lost |-> 0]
  /\ UNCHANGED <<mergerVars, wk, mg, sw, site, opts, disk, topics, queue,
                 enqueued, processed, dequeued, fetching, parsing, results,
                 mn, faults>>

\* RequestsIter.__next__: self._queue.get(block=False), handed to send_worker
Dequeue ==
  /\ Running
  /\ gen.pc = "for" /\ gen.open
  /\ queue # <<>>
  /\ fetching' = Append(fetching, Head(queue))
  /\ queue' = Tail(queue)
  /\ dequeued' = dequeued + 1
  /\ UNCHANGED <<mergerVars, wk, mg, sw, site, opts, disk, topics, enqueued,
                 processed, gen, parsing, results, mn, faults>>

\* RequestsIter.__next__: Empty, so StopIteration: the imap takes no more
StopIteration ==
  /\ Running
  /\ gen.pc = "for" /\ gen.open
  /\ queue = <<>>
  /\ gen' = [gen EXCEPT !.open = FALSE]
  /\ UNCHANGED <<mergerVars, wk, mg, sw, site, opts, disk, topics, queue,
                 enqueued, processed, dequeued, fetching, parsing, results,
                 mn, faults>>

\* the tuple scrape() yields for a result of send_worker
Yielded(task, res) ==
  IF res = "None"
  THEN [ok |-> FALSE, task |-> NoTask, resp |-> res, pc |-> "scrape"]
  ELSE [ok |-> res = "status200", task |-> task, resp |-> res,
        pc |-> "scrape"]

\* scrape() calls self.processed() for a None response and for a bad status
ProcessedByScrape(proc, res) ==
  IF res = "status200" THEN proc ELSE Processed(proc)

\* the body of the for loop of scrape() for one result of send_worker
FetchDone(i) ==
  /\ Running
  /\ gen.pc = "for"
  /\ i \in ActiveFetch
  /\ \E res \in FetchResults :
       /\ res # "status200" => faults < MaxFaults
       /\ faults' = IF res = "status200" THEN faults ELSE faults + 1
       /\ processed' = ProcessedByScrape(processed, res)
       /\ parsing' = Append(parsing, Yielded(fetching[i], res))
  /\ fetching' = RemoveAt(fetching, i)
  /\ UNCHANGED <<mergerVars, wk, mg, sw, site, opts, disk, topics, queue,
                 enqueued, dequeued, gen, results, mn>>

\* scrape(): the imap is exhausted: every task it took has been yielded
\* (gen.lost counts the tasks whose result will never come)
GenForEnd ==
  /\ Running
  /\ gen.pc = "for" /\ ~gen.open
  /\ fetching = <<>> /\ gen.lost = 0
  /\ gen' = [gen EXCEPT !.pc = "while"]
  /\ UNCHANGED <<mergerVars, wk, mg, sw, site, opts, disk, topics, queue,
                 enqueued, processed, dequeued, fetching, parsing, results,
                 mn, faults>>

\* the common frame of the scrape_worker actions
ParseFrame ==
  UNCHANGED <<wk, mg, sw, site, opts, topics, queue, enqueued, processed,
              dequeued, gen, fetching, mn>>

\* scrape_worker: obj is None or not ok: return []
ScrapeFailed(i) ==
  /\ Running
  /\ i \in ActiveParse /\ parsing[i].pc = "scrape" /\ ~parsing[i].ok
  /\ parsing' = RemoveAt(parsing, i)
  /\ results' = Append(results, ResultPages(<<>>))
  /\ UNCHANGED <<mergerVars, disk, faults>>
  /\ ParseFrame

\* (mutant of FileSaverScrape) a file that could not be written is tried again
FileSaverScrapeRetries(task, fsok) == IF fsok THEN <<>> ELSE <<task>>

\* what FileSaver.scrape returns: [] after the file was written and [] from
\* both except clauses
FileSaverScrape(task, fsok) == <<>>

\* FileSaver.scrape: the file written, or an error logged; [] either way
ScrapeFile(i) ==
  /\ Running
  /\ i \in ActiveParse /\ parsing[i].pc = "scrape" /\ parsing[i].ok
  /\ parsing[i].task.kind = "file"
  /\ \E fsok \in BOOLEAN :
       /\ ~fsok => faults < MaxFaults
       /\ faults' = IF fsok THEN faults ELSE faults + 1
       /\ disk' = IF fsok
                  THEN [disk EXCEPT !.files = @ \cup {parsing[i].task.id}]
                  ELSE disk
       /\ results' = Append(results,
            ScrapeWorkerReturns(FileSaverScrape(parsing[i].task, fsok)))
  /\ parsing' = RemoveAt(parsing, i)
  /\ UNCHANGED mergerVars
  /\ ParseFrame

\* PhpBBForum.scrape
ScrapeForum(i) ==
  /\ Running
  /\ i \in ActiveParse /\ parsing[i].pc = "scrape" /\ parsing[i].ok
  /\ parsing[i].task.kind = "forum"
  /\ parsing' = RemoveAt(parsing, i)
  /\ results' = Append(results,
       ScrapeWorkerReturns(ForumScrape(site, opts.scraped_topics,
                                       parsing[i].task)))
  /\ UNCHANGED <<mergerVars, disk, faults>>
  /\ ParseFrame

\* PhpBBTopic.scrape: _parse_page() == False: return []
ScrapeTopicFails(i) ==
  /\ Running
  /\ i \in ActiveParse /\ parsing[i].pc = "scrape" /\ parsing[i].ok
  /\ parsing[i].task.kind = "topic"
  /\ faults < MaxFaults
  /\ faults' = faults + 1
  /\ parsing' = RemoveAt(parsing, i)
  /\ results' = Append(results, ScrapeWorkerReturns(<<>>))
  /\ UNCHANGED <<mergerVars, disk>>
  /\ ParseFrame

\* PhpBBTopic.scrape of a first page: page_merger.add(), up to its release
ScrapeTopicAdd(i) ==
  /\ Running
  /\ i \in ActiveParse /\ parsing[i].pc = "scrape" /\ parsing[i].ok
  /\ parsing[i].task.kind = "topic" /\ parsing[i].task.start = 0
  /\ CanAcquire(lock)
  /\ pages' = [pages EXCEPT ![parsing[i].task.id] =
                 NewDoc(site.posts[parsing[i].task.id])]
  /\ parsing' = [parsing EXCEPT ![i].pc = "append"]
  /\ UNCHANGED <<lock, saved, disk, results, faults>>
  /\ ParseFrame

\* what PhpBBTopic.scrape returns after the merger returned media
TopicReturns(st, task, media) ==
  IF task.start # 0 THEN media
  ELSE media \o Siblings("topic", task.id, TopicPagination(st, task))

\* PhpBBTopic.scrape: page_merger.append() (the one add() ends with, or that
\* of a later page) and the return.  A key without an entry raises KeyError
\* between acquire() and release(): the lock stays held and the exception is
\* the result of the scrape_worker call.
ScrapeTopicAppend(i) ==
  /\ Running
  /\ i \in ActiveParse /\ parsing[i].task.kind = "topic" /\ parsing[i].ok
  /\ \/ parsing[i].pc = "append"
     \/ parsing[i].pc = "scrape" /\ parsing[i].task.start # 0
  /\ CanAcquire(lock)
  /\ parsing' = RemoveAt(parsing, i)
  /\ LET task == parsing[i].task
         key  == task.id
         v    == AppendDoc(pages[key], TopicPosts(site, task), task.start)
     IN  IF ~pages[key].open
         THEN /\ lock' = lock \cup {CHOOSE w \in Workers : TRUE}
              /\ results' = Append(results, ResultRaise)
              /\ UNCHANGED <<pages, saved, disk, faults>>
         ELSE IF Complete(v)
         THEN /\ \E fsok \in BOOLEAN :
                   /\ ~fsok => faults < MaxFaults
                   /\ faults' = IF fsok THEN faults ELSE faults + 1
                   /\ disk' = SaveDisk(disk, key, fsok)
                   /\ results' = Append(results,
                        ScrapeWorkerReturns(TopicReturns(site, task,
                          SaveReturns(opts, disk, v.data, fsok))))
              /\ saved' = Append(saved, SaveCall(key, v.data, FALSE))
              /\ pages' = [pages EXCEPT ![key] = NoDoc]
              /\ UNCHANGED lock
         ELSE /\ pages' = [pages EXCEPT ![key] = v]
              /\ results' = Append(results,
                   ScrapeWorkerReturns(TopicReturns(site, task, <<>>)))
              /\ UNCHANGED <<lock, saved, disk, faults>>
  /\ ParseFrame

\* the common frame of the actions of main's loops
MainFrame ==
  UNCHANGED <<mergerVars, wk, mg, sw, site, opts, disk, topics, dequeued,
              gen, fetching, parsing, faults>>

\* (mutant of ProcessedAfterNone) the None result is passed over
ProcessedAfterNoneSkipped(proc) == proc

\* main, primary loop: if pages is None: scraper.processed()
ProcessedAfterNone(proc) == Processed(proc)

\* main, media loop: if pages is None: continue
MediaAfterNone(proc) == proc

\* main: the next result of imap_unordered; an exception of the worker is
\* raised again in main, which nothing catches
MainResult(r) ==
  /\ mn.pc \in {"p_for", "m_for"}
  /\ results # <<>> /\ r = Head(results)
  /\ results' = Tail(results)
  /\ CASE r.kind = "raise" ->
            /\ mn' = [mn EXCEPT !.pc = "crashed"]
            /\ UNCHANGED processed
       [] r.kind = "None" ->
            /\ processed' = IF mn.pc = "p_for" THEN ProcessedAfterNone(processed)
                            ELSE MediaAfterNone(processed)
            /\ UNCHANGED mn
       [] OTHER ->
            /\ mn' = [mn EXCEPT !.pc = IF mn.pc = "p_for" THEN "p_put" ELSE "m_put",
                                !.pages = r.pages]
            /\ UNCHANGED processed
  /\ UNCHANGED <<queue, enqueued>>
  /\ MainFrame

\* scraper.enqueue(pages), RequestsIter.put(): self._enqueued += 1
MainPutCount ==
  /\ mn.pc \in {"p_put", "m_put"}
  /\ mn.pages # <<>>
  /\ enqueued' = enqueued + 1
  /\ mn' = [mn EXCEPT !.pc = IF mn.pc = "p_put" THEN "p_queue" ELSE "m_queue"]
  /\ UNCHANGED <<queue, processed, results>>
  /\ MainFrame

\* scraper.enqueue(pages), RequestsIter.put(): self._queue.put(item)
MainPutQueue ==
  /\ mn.pc \in {"p_queue", "m_queue"}
  /\ queue' = Append(queue, Head(mn.pages))
  /\ mn' = [mn EXCEPT !.pc = IF mn.pc = "p_queue" THEN "p_put" ELSE "m_put",
                      !.pages = Tail(@)]
  /\ UNCHANGED <<enqueued, processed, results>>
  /\ MainFrame

\* scraper.processed() after scraper.enqueue(pages)
MainProcessed ==
  /\ mn.pc \in {"p_put", "m_put"}
  /\ mn.pages = <<>>
  /\ processed' = Processed(processed)
  /\ mn' = [mn EXCEPT !.pc = IF mn.pc = "p_put" THEN "p_for" ELSE "m_for"]
  /\ UNCHANGED <<queue, enqueued, results>>
  /\ MainFrame

\* the for loop of main ends: the generator is exhausted and every result
\* has been taken.  The media loop then tests doneProcessing == False again,
\* which nothing in the loop changes.
MainForEnd ==
  /\ mn.pc \in {"p_for", "m_for"}
  /\ gen.pc = "end"
  /\ parsing = <<>> /\ results = <<>>
  /\ mn' = [mn EXCEPT !.pc = IF mn.pc = "p_for" THEN "p_check" ELSE "m_start"]
  /\ UNCHANGED <<queue, enqueued, processed, results>>
  /\ MainFrame

\* main, primary loop: if scraper.is_done(): doneProcessing = True
MainCheck ==
  /\ mn.pc = "p_check"
  /\ mn' = [mn EXCEPT !.pc = IF IsDone(queue, processed, enqueued)
                             THEN "force" ELSE "p_start"]
  /\ UNCHANGED <<queue, enqueued, processed, results>>
  /\ MainFrame

\* the media the save calls of force_save() return, in the order of the calls
RECURSIVE ForceMedia(_, _, _, _)
ForceMedia(o, d, calls, bad) ==
  IF calls = <<>> THEN <<>>
  ELSE SaveReturns(o, d, Head(calls).data, Head(calls).id \notin bad)
         \o ForceMedia(o, d, Tail(calls), bad)

\* main: media = scraper.force_merge(); if media: scraper.enqueue(media)
MainForce ==
  /\ mn.pc = "force"
  /\ CanAcquire(lock)
  /\ \E order \in Orders(OpenKeys), bad \in SUBSET OpenKeys :
       LET calls == ForceSaveCalls(pages, order)
           media == ForceMedia(opts, disk, calls, bad)
       IN  /\ faults + Cardinality(bad) <= MaxFaults
           /\ faults' = faults + Cardinality(bad)
           /\ saved' = saved \o calls
           /\ disk' = [disk EXCEPT !.docs = @ \cup (OpenKeys \ bad)]
           /\ queue' = queue \o media
           /\ enqueued' = enqueued + Len(media)
           /\ mn' = [mn EXCEPT !.pc = IF media # <<>> THEN "m_start" ELSE "stats"]
  /\ pages' = ForceSavePages(pages)
  /\ UNCHANGED <<lock, wk, mg, sw, site, opts, topics, processed, dequeued,
                 gen, fetching, parsing, results>>

\* main: scraper.stats()
MainStats ==
  /\ mn.pc = "stats"
  /\ CanAcquire(lock)
  /\ mn' = [mn EXCEPT !.pc = "done", !.stats = StatsOf(pages)]
  /\ UNCHANGED <<queue, enqueued, processed, results>>
  /\ MainFrame

GenStep == GenEnqueue \/ GenWhile \/ StopIteration \/ GenForEnd

FetchStep == Dequeue \/ \E i \in ActiveFetch : FetchDone(i)

ParseStep ==
  \E i \in ActiveParse :
    \/ ScrapeFailed(i) \/ ScrapeFile(i) \/ ScrapeForum(i)
    \/ ScrapeTopicFails(i) \/ ScrapeTopicAdd(i) \/ ScrapeTopicAppend(i)

MainStep ==
  \/ MainStart \/ (\E r \in {results[j] : j \in DOMAIN results} : MainResult(r))
  \/ MainPutCount \/ MainPutQueue \/ MainProcessed \/ MainForEnd
  \/ MainCheck \/ MainForce \/ MainStats

Next ==
  \/ GenEnqueue \/ GenWhile \/ StopIteration \/ GenForEnd
  \/ Dequeue
  \/ \E i \in ActiveFetch : FetchDone(i)
  \/ \E i \in ActiveParse : ScrapeFailed(i)
  \/ \E i \in ActiveParse : ScrapeFile(i)
  \/ \E i \in ActiveParse : ScrapeForum(i)
  \/ \E i \in ActiveParse : ScrapeTopicFails(i)
  \/ \E i \in ActiveParse : ScrapeTopicAdd(i)
  \/ \E i \in ActiveParse : ScrapeTopicAppend(i)
  \/ MainStart
  \/ \E r \in {results[j] : j \in DOMAIN results} : MainResult(r)
  \/ MainPutCount \/ MainPutQueue \/ MainProcessed \/ MainForEnd
  \/ MainCheck \/ MainForce \/ MainStats

Spec == Init /\ [][Next]_vars

\* the threads and the pool workers all keep running
Fairness ==
  /\ WF_vars(GenStep) /\ WF_vars(FetchStep)
  /\ WF_vars(ParseStep) /\ WF_vars(MainStep)

\* the topics the forum argument leads to, page by page
Discoveries(st, seeds, t) ==
  Cardinality({i \in DOMAIN seeds : seeds[i] = Task("topic", t, 0)})
    + IF \E i \in DOMAIN seeds : seeds[i].kind = "forum"
      THEN Cardinality({i \in DOMAIN st.listing : t \in st.listing[i]})
      ELSE 0

\* a run whose tasks are all distinct: no topic is discovered twice
InitFrontier ==
  /\ Init
  /\ \A t \in Topics : Discoveries(site, topics, t) <= 1

FairSpec == InitFrontier /\ [][Next]_vars /\ Fairness

--------------------------------------------------------------------------
(* The crawl with the IndexError branch of send_worker (SpecExit) *)

\* send_worker: except IndexError: ... sys.exit(1).  send_worker runs in a
\* thread of the ThreadPool of scrape(): SystemExit ends that thread, the
\* pool starts another one in its place, and the result of the task is never
\* put on the result queue of the imap.
FetchExits(i) ==
  /\ Running
  /\ gen.pc = "for"
  /\ i \in ActiveFetch
  /\ faults < MaxFaults
  /\ faults' = faults + 1
  /\ fetching' = RemoveAt(fetching, i)
  /\ gen' = [gen EXCEPT !.lost = @ + 1]
  /\ UNCHANGED <<mergerVars, wk, mg, sw, site, opts, disk, topics, queue,
                 enqueued, processed, dequeued, parsing, results, mn>>

NextExit == Next \/ \E i \in ActiveFetch : FetchExits(i)

SpecExit == InitFrontier /\ [][NextExit]_vars

--------------------------------------------------------------------------
(* A second run over the output directory of an earlier one (SpecResume).
   queue keeps every task ever put, dequeued counts the tasks handed out. *)

\* the users document is saved under the key 'users', as users.json
UsersTask == Task("users", 0, 0)

\* the output directories an earlier run leaves: <id>.json of the topics it
\* saved, and users.json if it saved the users.  _load_state() reads the
\* topic ids with int(f[:-5]), which raises for users.json: the name is
\* passed over, so the documents LoadState() reads are d.docs alone.
\* partial are the documents among them that force_save() wrote while their
\* remain was > 0: it calls the same save(), which writes the same <id>.json.
Disks ==
  UNION {{[docs |-> ds, files |-> {}, users |-> u, partial |-> ps] :
            u \in BOOLEAN, ps \in SUBSET ds} : ds \in SUBSET Topics}

\* __init__: forums_arg = ['0'] if there is no argument and no save_users
ForumsArg(save_users, forums, tops) ==
  IF ~save_users /\ forums = <<>> /\ tops = {} THEN <<0>> ELSE forums

\* __init__: self._topics after the PhpBBUsers task and the _parse_arg calls
InitTopics(save_users, forums, tops, scraped) ==
  (IF save_users THEN <<UsersTask>> ELSE <<>>)
    \o SeedTasks(ForumsArg(save_users, forums, tops), tops, scraped)

\* the tasks the scrape() of a fetched page returns, media apart
Expand(st, scraped, task) ==
  CASE task.kind = "forum" /\ task.id = 0 -> <<Task("forum", ForumId, 0)>>
    [] task.kind = "forum" /\ task.id # 0 -> ForumScrape(st, scraped, task)
    [] task.kind = "topic" /\ task.start = 0 -> TopicReturns(st, task, <<>>)
    [] OTHER -> <<>>

InitResume ==
  /\ pages = NoPages
  /\ lock = {}
  /\ saved = <<>>
  /\ wk = [w \in Workers |-> IdleWorker]
  /\ mg = [pc |-> "off", stats |-> {}]
  /\ sw = NoSend
  /\ site \in Sites
  /\ disk \in Disks
  /\ \E f \in {0, 1}, u \in BOOLEAN :
       opts = [save_media |-> FALSE, force |-> f, scraped_topics |-> {},
               save_users |-> u]
  /\ topics = <<>>
  /\ queue = <<>>
  /\ enqueued = 0
  /\ processed = 0
  /\ dequeued = 0
  /\ gen = [pc |-> "off", open |-> FALSE, lost |-> 0]
  /\ fetching = <<>>
  /\ parsing = <<>>
  /\ results = <<>>
  /\ mn = [pc |-> "init", pages |-> <<>>, stats |-> {}]
  /\ faults = 0

ResumeFrame ==
  UNCHANGED <<mergerVars, wk, mg, sw, site, disk, processed, gen, fetching,
              parsing, results, faults>>

\* PhpBBScraper.__init__ for some forum and topic arguments
ResumeConstruct ==
  /\ mn.pc = "init"
  /\ \E forums \in {<<>>, <<ForumId>>}, tops \in SUBSET Topics :
       LET scraped == LoadState(opts.force, disk)
       IN  /\ opts' = [opts EXCEPT !.scraped_topics = scraped]
           /\ topics' = InitTopics(opts.save_users, forums, tops, scraped)
  /\ mn' = [mn EXCEPT !.pc = "scrape"]
  /\ UNCHANGED <<queue, enqueued, dequeued>>
  /\ ResumeFrame

\* scrape(): self.enqueue(self._topics); self._topics = []
ResumeEnqueue ==
  /\ mn.pc = "scrape"
  /\ queue' = queue \o topics
  /\ enqueued' = enqueued + Len(topics)
  /\ topics' = <<>>
  /\ mn' = [mn EXCEPT !.pc = "crawl"]
  /\ UNCHANGED <<opts, dequeued>>
  /\ ResumeFrame

\* the next task is fetched and scraped, and what it returns is enqueued
ResumeStep ==
  /\ mn.pc = "crawl"
  /\ dequeued < Len(queue)
  /\ LET found == Expand(site, opts.scraped_topics, queue[dequeued + 1])
     IN  /\ queue' = queue \o found
         /\ enqueued' = enqueued + Len(found)
  /\ dequeued' = dequeued + 1
  /\ UNCHANGED <<opts, topics, mn>>
  /\ ResumeFrame

NextResume == ResumeConstruct \/ ResumeEnqueue \/ ResumeStep

SpecResume == InitResume /\ [][NextResume]_vars

--------------------------------------------------------------------------
(* Pages behind a login or password wall (SpecWalls).  The tasks are scraped
   one after the other; queue keeps every task ever put, dequeued counts the
   tasks handed out, results is the record of what each scrape() did. *)

\* what a page can show in place of its content: an error message
\* ('#message p'), the login form ('form#login') or the password form
\* ('form#login_forum' with 'input#password')
Walls == {"none", "message", "login", "password"}

\* the forum and the topic of the site that may be walled
WallTargets == {<<"forum", ForumId>>, <<"topic", 1>>}

\* what the page of a forum or topic shows: its wall, until a password was
\* accepted for it
WallOf(st, kind, id) ==
  IF <<kind, id>> \in WallTargets /\ <<kind, id>> \notin st.unlocked
  THEN st.walls[<<kind, id>>]
  ELSE "none"

\* the largest number of tasks of a crawl of the walled site
MaxWallTasks == 8

\* PhpBBForumPassword(opts, session, page, password): the form's action is
\* the viewforum.php or viewtopic.php URL of the walled page, offset included
PasswordTask(task) ==
  [kind |-> "password", id |-> task.id, start |-> 0, target |-> task.kind,
   page |-> task.start]

\* (mutant of WallReaction) the login form is not looked for
WallReactionIgnoresLogin(wall, stored) ==
  CASE wall = "message" -> "drop"
    [] wall = "password" -> IF stored THEN "submit" ELSE "drop"
    [] OTHER -> "scrape"

\* the head of PhpBBForum.scrape and PhpBBTopic.scrape: return [] for an
\* error message, for the login form and for the password form without a
\* stored password; return the password task with one; else go on
WallReaction(wall, stored) ==
  CASE wall \in {"message", "login"} -> "drop"
    [] wall = "password" -> IF stored THEN "submit" ELSE "drop"
    [] OTHER -> "scrape"

\* (mutant of PasswordReaction) the password is submitted again
PasswordReactionResubmits(wall) ==
  CASE wall \in {"message", "login"} -> "drop"
    [] wall = "password" -> "submit"
    [] OTHER -> "scrape"

\* the head of PhpBBForumPassword.scrape: return [] for an error message, the
\* login form or the password form; else scrape the response as first page
PasswordReaction(wall) == IF wall = "none" THEN "scrape" ELSE "drop"

\* the sites with their walls; answer is what the response to a submitted
\* password shows ("none": the password was accepted, and the response is
\* the page asked for); remembers tells whether later requests of the crawl
\* find the page open after that
WalledSites ==
  {[posts |-> st.posts, listing |-> st.listing, walls |-> w, answer |-> a,
    remembers |-> m, unlocked |-> {}] :
     st \in {x \in Sites : Len(x.listing) = 1},
     w \in [WallTargets -> Walls], a \in Walls, m \in BOOLEAN}

\* the page a task's scrape() works on: of a password task, the first page
\* of its forum or topic
PageTask(task) ==
  IF task.kind = "password" THEN Task(task.target, task.id, 0) ELSE task

\* the page of the site the response to the task holds: of a password task,
\* the page the form was on
ResponsePage(task) ==
  IF task.kind = "password" THEN Task(task.target, task.id, task.page)
  ELSE task

\* what the response to the task shows
ShownTo(st, task) ==
  IF task.kind = "password" THEN st.answer
  ELSE WallOf(st, task.kind, task.id)

\* what the scrape() of the task does with the response
ReactionTo(st, passwords, task) ==
  IF task.kind = "password" THEN PasswordReaction(ShownTo(st, task))
  ELSE WallReaction(ShownTo(st, task), <<task.kind, task.id>> \in passwords)

\* the entry of the topic after page_merger.add() / append() by the scrape
\* of the topic object pt, of the posts the response page rp holds
MergedPage(pgs, st, pt, rp) ==
  AppendDoc(IF pt.start = 0 THEN NewDoc(st.posts[pt.id]) ELSE pgs[pt.id],
            TopicPosts(st, rp), pt.start)

\* the tasks scrape() returns
FoundBy(st, o, task) ==
  LET pt == PageTask(task)
      reaction == ReactionTo(st, o.passwords, task)
  IN  CASE reaction = "drop" -> <<>>
        [] reaction = "submit" -> <<PasswordTask(task)>>
        [] reaction = "scrape" /\ pt.kind = "forum" ->
             ForumScrape(st, o.scraped_topics, pt)
        [] OTHER -> TopicReturns(st, pt, <<>>)

InitWalls ==
  /\ pages = NoPages
  /\ lock = {}
  /\ saved = <<>>
  /\ wk = [w \in Workers |-> IdleWorker]
  /\ mg = [pc |-> "off", stats |-> {}]
  /\ sw = NoSend
  /\ site \in WalledSites
  /\ disk = [docs |-> {}, files |-> {}]
  /\ \E tops \in {{}, {1}}, pw \in SUBSET WallTargets :
       \* _parse_arg: "-t 1:secret" stores the password and seeds the topic
       /\ <<"topic", 1>> \in pw => 1 \in tops
       /\ opts = [save_media |-> FALSE, force |-> 0, scraped_topics |-> {},
                  passwords |-> pw]
       /\ topics = SeedTasks(<<ForumId>>, tops, {})
  /\ \A t \in Topics : Discoveries(site, topics, t) <= 1
  /\ queue = <<>>
  /\ enqueued = 0
  /\ processed = 0
  /\ dequeued = 0
  /\ gen = [pc |-> "off", open |-> FALSE, lost |-> 0]
  /\ fetching = <<>>
  /\ parsing = <<>>
  /\ results = <<>>
  /\ mn = [pc |-> "scrape", pages |-> <<>>, stats |-> {}]
  /\ faults = 0

\* scrape(): self.enqueue(self._topics); self._topics = []
WallsEnqueue ==
  /\ mn.pc = "scrape"
  /\ queue' = queue \o topics
  /\ enqueued' = enqueued + Len(topics)
  /\ topics' = <<>>
  /\ mn' = [mn EXCEPT !.pc = "crawl"]
  /\ UNCHANGED <<mergerVars, wk, mg, sw, site, opts, disk, processed,
                 dequeued, gen, fetching, parsing, results, faults>>

\* the next task is fetched (the server takes note of an accepted password)
\* and scraped; what it returns is enqueued
WallsStep ==
  /\ mn.pc = "crawl"
  /\ dequeued < Len(queue)
  /\ LET task == queue[dequeued + 1]
         pt == PageTask(task)
         st == IF /\ task.kind = "password" /\ site.answer = "none"
                  /\ site.remembers
               THEN [site EXCEPT !.unlocked = @ \cup {<<pt.kind, pt.id>>}]
               ELSE site
         reaction == ReactionTo(st, opts.passwords, task)
         found == FoundBy(st, opts, task)
         v == MergedPage(pages, st, pt, ResponsePage(task))
     IN  /\ Len(queue) + Len(found) <= MaxWallTasks
         /\ site' = st
         /\ queue' = queue \o found
         /\ enqueued' = enqueued + Len(found)
         /\ IF reaction = "scrape" /\ pt.kind = "topic"
            THEN IF Complete(v)
                 THEN /\ saved' = Append(saved, SaveCall(pt.id, v.data, FALSE))
                      /\ pages' = [pages EXCEPT ![pt.id] = NoDoc]
                      /\ disk' = SaveDisk(disk, pt.id, TRUE)
                 ELSE /\ pages' = [pages EXCEPT ![pt.id] = v]
                      /\ UNCHANGED <<saved, disk>>
            ELSE UNCHANGED <<pages, saved, disk>>
         /\ results' = Append(results,
              [task |-> task, shown |-> ShownTo(st, task), found |-> found,
               merged |-> reaction = "scrape" /\ pt.kind = "topic",
               page |-> ResponsePage(task).start, offset |-> pt.start])
  /\ dequeued' = dequeued + 1
  /\ UNCHANGED <<lock, wk, mg, sw, opts, topics, processed, gen, fetching,
                 parsing, mn, faults>>

NextWalls == WallsEnqueue \/ WallsStep

SpecWalls == InitWalls /\ [][NextWalls]_vars

--------------------------------------------------------------------------
(* A forum of many topics, a topic of many posts (SpecPaged).  One forum is
   crawled from fresh state, the tasks scraped one after the other; queue
   keeps every task ever put, dequeued counts the tasks handed out, results
   is the record of the contributions given to the merger. *)

\* the largest number of topics of the forum
MaxTopics == 23

\* the largest number of posts of a topic
MaxTopicPosts == 45

\* the largest number of elements the board shows on a page
MaxStride == 20

\* the boards: a forum of n topics 1 .. n, listed per_forum to a page, each
\* topic of the same number of posts, shown per_topic to a page
Boards ==
  {[forum |-> 5, topics |-> n, posts |-> p, per_forum |-> f, per_topic |-> t] :
     n \in 1..MaxTopics, p \in {1, MaxTopicPosts - 1, MaxTopicPosts},
     f \in {MaxStride - 1, MaxStride}, t \in {MaxStride - 1, MaxStride}}

\* the topic links of the listing page at offset start
ListedAt(b, start) ==
  {k \in 1..b.topics : start < k /\ k <= start + b.per_forum}

\* PhpBBForum.scrape for a listing page of the board's forum
BoardForumScrape(b, scraped, task) ==
  LET here  == Ascending(ListedAt(b, task.start) \ scraped)
      found == [i \in DOMAIN here |-> Task("topic", here[i], 0)]
      last  == PageCount(b.topics, b.per_forum)
      pg    == Pagination(PageLinks(last, b.per_forum), last, b.topics)
  IN  IF task.start # 0 THEN found
      ELSE found \o Siblings("forum", task.id, pg)

\* self._posts after _parse_page() of a topic page of the board
BoardPosts(b, task) ==
  PageItems(task.id, task.start, Min(b.per_topic, b.posts - task.start))

\* PhpBBTopic.scrape of a page without media: a first page returns its
\* sibling pages, a later page what append() returns
BoardTopicScrape(b, task) ==
  LET last == PageCount(b.posts, b.per_topic)
      pg   == Pagination(PageLinks(last, b.per_topic), last, b.posts)
  IN  IF task.start # 0 THEN <<>>
      ELSE Siblings("topic", task.id, pg)

InitPaged ==
  /\ pages = [k \in 1..MaxTopics |-> NoDoc]
  /\ lock = {}
  /\ saved = <<>>
  /\ wk = [w \in Workers |-> IdleWorker]
  /\ mg = [pc |-> "off", stats |-> {}]
  /\ sw = NoSend
  /\ site \in Boards
  /\ disk = [docs |-> {}, files |-> {}]
  /\ opts = [save_media |-> FALSE, force |-> 0, scraped_topics |-> {}]
  /\ topics = SeedTasks(<<site.forum>>, {}, {})
  /\ queue = <<>>
  /\ enqueued = 0
  /\ processed = 0
  /\ dequeued = 0
  /\ gen = [pc |-> "off", open |-> FALSE, lost |-> 0]
  /\ fetching = <<>>
  /\ parsing = <<>>
  /\ results = <<>>
  /\ mn = [pc |-> "scrape", pages |-> <<>>, stats |-> {}]
  /\ faults = 0

\* scrape(): self.enqueue(self._topics); self._topics = []
PagedEnqueue ==
  /\ mn.pc = "scrape"
  /\ queue' = queue \o topics
  /\ enqueued' = enqueued + Len(topics)
  /\ topics' = <<>>
  /\ mn' = [mn EXCEPT !.pc = "crawl"]
  /\ UNCHANGED <<mergerVars, wk, mg, sw, site, opts, disk, processed,
                 dequeued, gen, fetching, parsing, results, faults>>

\* the next task is a listing page: its topics and sibling pages are enqueued
PagedForum ==
  /\ mn.pc = "crawl"
  /\ dequeued < Len(queue)
  /\ queue[dequeued + 1].kind = "forum"
  /\ LET found == BoardForumScrape(site, opts.scraped_topics,
                                   queue[dequeued + 1])
     IN  /\ queue' = queue \o found
         /\ enqueued' = enqueued + Len(found)
  /\ dequeued' = dequeued + 1
  /\ UNCHANGED <<mergerVars, wk, mg, sw, site, opts, disk, topics, processed,
                 gen, fetching, parsing, results, mn, faults>>

\* the next task is a topic page: its posts go to the merger by add() (first
\* page) or append() (later page), which saves the topic once remain <= 0
PagedTopic ==
  /\ mn.pc = "crawl"
  /\ dequeued < Len(queue)
  /\ queue[dequeued + 1].kind = "topic"
  /\ LET task  == queue[dequeued + 1]
         posts == BoardPosts(site, task)
         found == BoardTopicScrape(site, task)
         v     == AppendDoc(IF task.start = 0 THEN NewDoc(site.posts)
                            ELSE pages[task.id], posts, task.start)
     IN  /\ task.start # 0 => pages[task.id].open
         /\ queue' = queue \o found
         /\ enqueued' = enqueued + Len(found)
         /\ results' = Append(results,
              [key |-> task.id, offset |-> task.start, items |-> Len(posts)])
         /\ IF Complete(v)
            THEN /\ saved' = Append(saved, SaveCall(task.id, v.data, FALSE))
                 /\ pages' = [pages EXCEPT ![task.id] = NoDoc]
                 /\ disk' = SaveDisk(disk, task.id, TRUE)
            ELSE /\ pages' = [pages EXCEPT ![task.id] = v]
                 /\ UNCHANGED <<saved, disk>>
  /\ dequeued' = dequeued + 1
  /\ UNCHANGED <<lock, wk, mg, sw, site, opts, topics, processed, gen,
                 fetching, parsing, mn, faults>>

NextPaged == PagedEnqueue \/ PagedForum \/ PagedTopic

SpecPaged == InitPaged /\ [][NextPaged]_vars

--------------------------------------------------------------------------
(* The counters of RequestsIter, load by load and store by store (SpecCount).
   scrape() runs in the thread that feeds the parse pool, the drain loop in
   the main thread; both call processed() on the same RequestsIter, and
   self._processed += 1 is a load, an addition and a store.  queue holds the
   tasks, fetching the results of send_worker, results those of
   scrape_worker. *)

\* the largest number of tasks of the crawl
MaxCountTasks == 3

\* what scrape_worker returns for a page that was fetched: None, or pages
\* with or without a task among them
CountResults == {"None", "empty", "child"}

InitCount ==
  /\ pages = NoPages
  /\ lock = {}
  /\ saved = <<>>
  /\ wk = [w \in Workers |-> IdleWorker]
  /\ mg = [pc |-> "off", stats |-> {}]
  /\ sw = NoSend
  /\ site = [posts |-> <<>>, listing |-> <<>>]
  /\ opts = [save_media |-> FALSE, force |-> 0, scraped_topics |-> {}]
  /\ disk = [docs |-> {}, files |-> {}]
  /\ topics = <<>>
  /\ \E n \in 1..MaxCountTasks :
       /\ queue = [i \in 1..n |-> Task("topic", i, 0)]
       /\ enqueued = n
  /\ processed = 0
  /\ dequeued = 0
  /\ gen = [pc |-> "for", reg |-> 0]
  /\ fetching = <<>>
  /\ parsing = <<>>
  /\ results = <<>>
  /\ mn = [pc |-> "for", reg |-> 0]
  /\ faults = 0

\* RequestsIter.__next__ and send_worker: a task is taken and fetched
CountFetch ==
  /\ queue # <<>>
  /\ \E res \in FetchResults : fetching' = Append(fetching, res)
  /\ queue' = Tail(queue)
  /\ dequeued' = dequeued + 1
  /\ UNCHANGED <<mergerVars, wk, mg, sw, site, opts, disk, topics, enqueued,
                 processed, gen, parsing, results, mn, faults>>

\* the for loop of scrape() takes a good result: it is yielded, and
\* scrape_worker gives its result to main
CountYieldGood ==
  /\ gen.pc = "for"
  /\ fetching # <<>> /\ Head(fetching) = "status200"
  /\ fetching' = Tail(fetching)
  /\ \E r \in CountResults :
       /\ r = "child" => enqueued + Len(results) < MaxCountTasks
       /\ results' = Append(results, r)
  /\ UNCHANGED <<mergerVars, wk, mg, sw, site, opts, disk, topics, queue,
                 enqueued, processed, dequeued, gen, parsing, mn, faults>>

\* the for loop of scrape() takes a None response or a bad status:
\* self.processed() is called
CountTakeBad ==
  /\ gen.pc = "for"
  /\ fetching # <<>> /\ Head(fetching) # "status200"
  /\ fetching' = Tail(fetching)
  /\ gen' = [gen EXCEPT !.pc = "load"]
  /\ UNCHANGED <<mergerVars, wk, mg, sw, site, opts, disk, topics, queue,
                 enqueued, processed, dequeued, parsing, results, mn, faults>>

\* processed() in scrape(): self._processed is loaded
CountGenLoad ==
  /\ gen.pc = "load"
  /\ gen' = [pc |-> "store", reg |-> processed]
  /\ UNCHANGED <<mergerVars, wk, mg, sw, site, opts, disk, topics, queue,
                 enqueued, processed, dequeued, fetching, parsing, results,
                 mn, faults>>

\* processed() in scrape(): the sum is stored; then yield (False, ...), for
\* which scrape_worker returns []
CountGenStore ==
  /\ gen.pc = "store"
  /\ processed' = Processed(gen.reg)
  /\ gen' = [gen EXCEPT !.pc = "for"]
  /\ results' = Append(results, "empty")
  /\ UNCHANGED <<mergerVars, wk, mg, sw, site, opts, disk, topics, queue,
                 enqueued, dequeued, fetching, parsing, mn, faults>>

\* main: the next result: scraper.enqueue(pages) unless pages is None, then
\* scraper.processed()
CountMainResult ==
  /\ mn.pc = "for"
  /\ results # <<>>
  /\ results' = Tail(results)
  /\ IF Head(results) = "child"
     THEN /\ queue' = Append(queue, Task("topic", enqueued + 1, 0))
          /\ enqueued' = enqueued + 1
     ELSE UNCHANGED <<queue, enqueued>>
  /\ mn' = [mn EXCEPT !.pc = "load"]
  /\ UNCHANGED <<mergerVars, wk, mg, sw, site, opts, disk, topics, processed,
                 dequeued, gen, fetching, parsing, faults>>

\* processed() in main: self._processed is loaded
CountMainLoad ==
  /\ mn.pc = "load"
  /\ mn' = [pc |-> "store", reg |-> processed]
  /\ UNCHANGED <<mergerVars, wk, mg, sw, site, opts, disk, topics, queue,
                 enqueued, processed, dequeued, gen, fetching, parsing,
                 results, faults>>

\* processed() in main: the sum is stored
CountMainStore ==
  /\ mn.pc = "store"
  /\ processed' = Processed(mn.reg)
  /\ mn' = [mn EXCEPT !.pc = "for"]
  /\ UNCHANGED <<mergerVars, wk, mg, sw, site, opts, disk, topics, queue,
                 enqueued, dequeued, gen, fetching, parsing, results, faults>>

NextCount ==
  \/ CountFetch \/ CountYieldGood \/ CountTakeBad \/ CountGenLoad
  \/ CountGenStore \/ CountMainResult \/ CountMainLoad \/ CountMainStore

SpecCount == InitCount /\ [][NextCount]_vars

--------------------------------------------------------------------------
(* The files a save and a user listing ask for (SpecMedia).  A topic is
   saved and a page of the user listing is scraped, with some of the files
   they refer to on disk already; queue takes the FileSaver tasks. *)

\* the users of the listing page
MaxUsers == 2

\* the file <uid>.png (e = 0) or <uid>.jpg (e = 1) of a user's avatar
AvatarFile(uid, e) == 100 + 2 * uid + e

\* the avatar files PhpBBUsers.scrape looks for: png and jpg of every user
Avatars == {AvatarFile(u, e) : u \in 1..MaxUsers, e \in {0, 1}}

\* PhpBBUsers.scrape, the FileSaver tasks: with save_attachments or
\* save_media, every avatar file but those for which
\* 'os.path.isfile(fname) or self._opts["force"]' holds
UsersMedia(o, d) ==
  IF ~o.save_media THEN <<>>
  ELSE LET wanted == {f \in Avatars : ~(f \in d.files \/ o.force # 0)}
           order  == Ascending(wanted)
       IN  [i \in DOMAIN order |-> Task("file", order[i], 0)]

\* the posts of the topic that is saved: topic 1, whole
MediaTopic == WholeDoc(1, MaxPosts)

InitMedia ==
  /\ pages = NoPages
  /\ lock = {}
  /\ saved = <<>>
  /\ wk = [w \in Workers |-> IdleWorker]
  /\ mg = [pc |-> "off", stats |-> {}]
  /\ sw = NoSend
  /\ site = [posts |-> <<>>, listing |-> <<>>]
  /\ \E fs \in SUBSET (Avatars \cup PostFiles(Item(1, 0))) :
       disk = [docs |-> {}, files |-> fs]
  /\ \E m \in BOOLEAN, f \in 0..2 :
       opts = [save_media |-> m, force |-> f, scraped_topics |-> {}]
  /\ topics = <<>>
  /\ queue = <<>>
  /\ enqueued = 0
  /\ processed = 0
  /\ dequeued = 0
  /\ gen = [pc |-> "off", open |-> FALSE, lost |-> 0]
  /\ fetching = <<>>
  /\ parsing = <<>>
  /\ results = <<>>
  /\ mn = [pc |-> "media", topic |-> FALSE, users |-> FALSE]
  /\ faults = 0

MediaFrame ==
  UNCHANGED <<mergerVars, wk, mg, sw, site, opts, disk, topics, processed,
              dequeued, gen, fetching, parsing, results, faults>>

\* PhpBBTopic.save of the topic; the media it returns are enqueued
MediaSaveTopic ==
  /\ mn.pc = "media" /\ ~mn.topic
  /\ LET media == SaveReturns(opts, disk, MediaTopic, TRUE)
     IN  /\ queue' = queue \o media
         /\ enqueued' = enqueued + Len(media)
  /\ mn' = [mn EXCEPT !.topic = TRUE]
  /\ MediaFrame

\* PhpBBUsers.scrape of the listing page; the FileSaver tasks it returns are
\* enqueued
MediaScrapeUsers ==
  /\ mn.pc = "media" /\ ~mn.users
  /\ LET media == UsersMedia(opts, disk)
     IN  /\ queue' = queue \o media
         /\ enqueued' = enqueued + Len(media)
  /\ mn' = [mn EXCEPT !.users = TRUE]
  /\ MediaFrame

NextMedia == MediaSaveTopic \/ MediaScrapeUsers

SpecMedia == InitMedia /\ [][NextMedia]_vars

--------------------------------------------------------------------------
(* PageMerger when a topic was enqueued twice (SpecMergeTwice).  The crawl
   puts a topic in the queue once for every place it is found (a topic
   argument, each listing page that links it), so two workers may scrape the
   first page of one topic: workers 1 and 2 both call add() for key 1,
   worker 3 scrapes the sibling page worker 1 returned.  The statements are
   those of SpecMerge. *)

InitMergeTwice ==
  /\ NoCrawl
  /\ pages = NoPages
  /\ lock = {}
  /\ saved = <<>>
  /\ sw = NoSend
  /\ mg = [pc |-> "pool", stats |-> {}]
  /\ \E s \in {x \in PageSizes : Len(x) <= 2} :
       wk = [w \in Workers |->
               CASE w = 1 -> PageWorker(1, s, 1, 1)
                 [] w = 2 -> PageWorker(1, s, 1, 2)
                 [] w = 3 /\ Len(s) = 2 -> PageWorker(1, s, 2, 1)
                 [] OTHER -> IdleWorker]

SpecMergeTwice == InitMergeTwice /\ [][NextMerge]_vars

--------------------------------------------------------------------------
(* Claims about PageMerger (SpecMerge) *)

\* the workers that scrape a page of document k
PageWorkers(k) == {w \in Workers : wk[w].pc # "idle" /\ wk[w].key = k}

\* every page of document k has been contributed and its append has returned
AllContributed(k) ==
  /\ PageWorkers(k) # {}
  /\ \A w \in PageWorkers(k) : wk[w].pc = "done"

\* the total of document k
SizeOf(k) == wk[CHOOSE w \in PageWorkers(k) : TRUE].size

\* C1 (merge completeness): once every page of a document (pages that
\* partition [0, N)) has been contributed through add / append, in whatever
\* order the workers ran, the save handler has been called exactly once for
\* the key, with the N items in index order: every slot filled, nothing
\* twice; and it is never called with anything else.
C1_MergeCompleteness ==
  \A k \in Keys :
    /\ \A i \in DOMAIN saved :
         (saved[i].id = k /\ ~saved[i].forced)
           => saved[i].data = WholeDoc(k, SizeOf(k))
    /\ AllContributed(k) =>
         /\ SaveCount(k) = 1
         /\ \E i \in DOMAIN saved :
              saved[i] = SaveCall(k, WholeDoc(k, SizeOf(k)), FALSE)

\* C1 witness: a document of three pages, all contributed, completed by its
\* second page (the third page arrived before the second), saved whole.
C1_Witness ==
  /\ AllContributed(1)
  /\ Cardinality(PageWorkers(1)) = 3
  /\ Complete(wk[2].v)
  /\ saved = <<SaveCall(1, WholeDoc(1, SizeOf(1)), FALSE)>>

\* the workers whose append found remain <= 0 and called the save handler
Winners(k) ==
  {w \in PageWorkers(k) : wk[w].pc \in {"release", "done"} /\ Complete(wk[w].v)}

\* C2 (at-most-once save): of the workers appending to a key concurrently,
\* at most one ever finds remain <= 0 and calls the save handler, and once
\* all of them have returned exactly one has.
C2_ExactlyOneWinner ==
  \A k \in Keys :
    /\ Cardinality(Winners(k)) <= 1
    /\ Cardinality({i \in DOMAIN saved : saved[i].id = k /\ ~saved[i].forced})
         = Cardinality(Winners(k))
    /\ AllContributed(k) => Cardinality(Winners(k)) = 1

\* C2 witness: two sibling pages were appended concurrently; worker 3 came
\* last, found remain <= 0 and has just called the save handler (it still
\* holds the lock), worker 2 returned without saving.
C2_Witness ==
  /\ wk[3].pc = "release" /\ wk[3].key = 1 /\ Complete(wk[3].v)
  /\ wk[2].pc = "done" /\ wk[2].key = 1 /\ ~Complete(wk[2].v)
  /\ lock = {3}
  /\ SaveCount(1) = 1

\* force_save() has run
AfterForceSave == mg.pc \in {"fs_release", "stats", "end"}

\* the items of the pages of document k that were contributed, in offset order
RECURSIVE ContributedUpTo(_, _)
ContributedUpTo(k, n) ==
  IF n = 0 THEN <<>>
  ELSE ContributedUpTo(k, n - 1)
         \o (IF wk[n].pc = "done" /\ wk[n].key = k THEN wk[n].data ELSE <<>>)

\* the forced calls of the save handler for key k
ForcedCalls(k) == {i \in DOMAIN saved : saved[i].id = k /\ saved[i].forced}

InCritical ==
  {w \in Workers : wk[w].pc \in {"add_store", "add_release", "read", "write",
                                 "check", "release"}}
    \cup (IF mg.pc \in {"fs_save", "fs_release"} THEN {MainId} ELSE {})

\* C20 (serialized mutation): at most one thread at a time is between the
\* acquire and the release of add, append or force_save, and it holds the
\* lock; from the read of a key's entry to the end of the completion check
\* and save call the entry in the map is the one the appending worker works
\* on: no other contribution to the key comes in between.
C20_MutationSerialized ==
  /\ Cardinality(InCritical) <= 1
  /\ InCritical \subseteq lock
  /\ Cardinality(lock) <= 1
  /\ \A w \in Workers :
       /\ wk[w].pc = "write" => pages[wk[w].key] = wk[w].v
       /\ (wk[w].pc = "check" /\ ~Complete(wk[w].v)) =>
            pages[wk[w].key] = wk[w].v
       /\ (wk[w].pc = "release" /\ Complete(wk[w].v)) =>
            ~pages[wk[w].key].open

\* C20 witness: workers 2 and 3 contribute to the same key at the same time;
\* worker 2 has read the entry and is about to write it, worker 3 waits for
\* the lock.
C20_Witness ==
  /\ wk[2].pc = "write" /\ wk[3].pc = "acquire"
  /\ wk[2].key = wk[3].key
  /\ lock = {2}

--------------------------------------------------------------------------
(* Claims about send_worker (SpecRetry) *)

\* every attempt made so far raised a transient connection failure
AllTransient ==
  \A i \in DOMAIN sw.tries : sw.tries[i].outcome \in Transient

\* C6 (retry bound): a task whose request raises a connection failure on
\* every attempt is attempted exactly max_retries times, all on the same
\* task object, and then send_worker returns None (exhausted); no call ever
\* makes more than max_retries attempts.
C6_RetryBound ==
  sw.pc # "off" =>
    /\ Len(sw.tries) <= max_retries
    /\ \A i \in DOMAIN sw.tries : sw.tries[i].task = sw.r
    /\ (AllTransient /\ sw.pc = "returned") =>
         /\ Len(sw.tries) = max_retries
         /\ sw.retry = max_retries
         /\ sw.result = "None"
    /\ (AllTransient /\ Len(sw.tries) = max_retries) =>
         sw.pc \in {"while", "returned"}

\* C6 witness: max_retries attempts, each a ConnectionError, and the call
\* has returned None.
C6_Witness ==
  /\ sw.pc = "returned"
  /\ \A i \in DOMAIN sw.tries : sw.tries[i].outcome = "ConnectionError"
  /\ sw.result = "None"
  /\ Len(sw.tries) = max_retries
  /\ AllTransient

--------------------------------------------------------------------------
(* Claims about the frontier and main's loops (Spec, FairSpec) *)

\* a task that may yet enqueue children is in the queue, in the fetch stage,
\* in the parse stage or in main's hands
Unprocessed ==
  \/ queue # <<>> \/ fetching # <<>>
  \/ \E i \in DOMAIN parsing : parsing[i].ok
  \/ \E i \in DOMAIN results : results[i].pages # <<>>
  \/ mn.pages # <<>>

\* C3: is_done() is never true while a task is still in the queue or in
\* flight in the fetch or parse stage, also when other tasks failed to fetch
C3_NeverDoneWhileUnprocessed ==
  IsDone(queue, processed, enqueued) => ~Unprocessed

C5_ProcessedOnce == processed <= enqueued

\* C7: once force_merge() has returned media tasks, the media loop of main
\* processes them and ends: main reaches its terminal state
C7_MediaPhaseTerminates == (mn.pc = "m_start") ~> (mn.pc = "done")

\* main has left the primary loop, which it does on is_done() only
PrimaryLeft ==
  mn.pc \in {"force", "m_start", "m_for", "m_put", "m_queue", "stats", "done"}

\* C8: whatever fails, the primary loop goes on until it leaves drained: it
\* never stops before
C8_PrimaryLoopDrains == PrimaryLeft \/ ENABLED Next

\* C10: no document key is passed to the save handler twice in one run, also
\* when the topic is discovered more than once
C10_SavedOnce == \A k \in Keys : SaveCount(k) <= 1

--------------------------------------------------------------------------
(* Claims about resuming (SpecResume) *)

\* the task asks for a document the output directory already holds
AlreadyPersisted(task) ==
  \/ task.kind = "topic" /\ task.id \in disk.docs
  \/ task.kind = "users" /\ disk.users

\* no topic task of the run asks for a topic the directory already holds
ResumeSkipsTopics ==
  (opts.force = 0 /\ mn.pc # "init") =>
    \A i \in DOMAIN queue :
      queue[i].kind = "topic" => ~AlreadyPersisted(queue[i])

\* C11: with force = 0, a second run enqueues no Topic task and no
\* User-listing task for a document the first run persisted
C11_IdempotentResume ==
  (opts.force = 0 /\ mn.pc # "init") =>
    \A i \in DOMAIN queue : ~AlreadyPersisted(queue[i])

--------------------------------------------------------------------------
(* Claims about failures of single tasks (Spec, SpecRetry) *)

\* C12: a response with a status other than 200 is handed to the parse stage
\* as a successful result, so that the task's scrape() runs on it
C12_Non200Expanded ==
  \A i \in DOMAIN parsing :
    parsing[i].resp = "statusOther" => parsing[i].ok

\* the attempts that timed out
Timeouts == {"ConnectTimeout", "ReadTimeout"}

\* every attempt made so far timed out
AllTimedOut ==
  \A i \in DOMAIN sw.tries : sw.tries[i].outcome \in Timeouts

\* C13: an attempt that times out (connect or read) counts against the retry
\* budget and is retried in place; after max_retries of them send_worker
\* returns None; the error never leaves send_worker
C13_TimeoutsRetried ==
  (sw.pc # "off" /\ AllTimedOut) =>
    /\ sw.pc # "raised"
    /\ sw.retry = Len(sw.tries)
    /\ sw.pc = "returned" => (sw.result = "None" /\ sw.retry = max_retries)

\* a send_worker call has ended in sys.exit(1)
Exited == gen.lost > 0

\* C14: when send_worker hits the IndexError the whole process ends at once:
\* afterwards no task is fetched, expanded or saved
C14_ExitStopsEverything ==
  [][Exited => UNCHANGED <<dequeued, fetching, parsing, saved, disk>>]_vars

\* C15: an attempt that fails with an invalid or missing URL scheme ends the
\* call at once with the None result: it is the last attempt, nothing is
\* retried and the attempt does not count in retry; a task that fails so on
\* its first attempt is dropped after exactly one attempt
C15_NonRetryableDropped ==
  sw.pc # "off" =>
    \A i \in DOMAIN sw.tries :
      sw.tries[i].outcome \in NonRetryable =>
        /\ i = Len(sw.tries)
        /\ sw.pc = "returned" /\ sw.result = "None"
        /\ sw.retry = i - 1

\* C15 witness: one attempt, an InvalidSchema, and the call has returned None
\* with retry still 0
C15_Witness ==
  /\ sw.pc = "returned" /\ sw.result = "None" /\ sw.retry = 0
  /\ Len(sw.tries) = 1 /\ sw.tries[1].outcome = "InvalidSchema"

\* a topic page whose posts do not all parse is being scraped
ParseFails == \E i \in ActiveParse : ScrapeTopicFails(i)

\* main takes the None result of a page in its primary loop
TakesNone ==
  /\ mn.pc = "p_for" /\ results # <<>> /\ Head(results) = ResultNone
  /\ results' = Tail(results)

\* C16: a topic page with a post that fails to parse contributes nothing to
\* the merger (no add, no append, the entry of its key unchanged), emits no
\* task (its result is None), and main still marks the task processed
C16_ParseFailureAllOrNothing ==
  /\ [][ParseFails =>
          /\ UNCHANGED <<pages, lock, saved, disk, queue, enqueued>>
          /\ results' = Append(results, ResultNone)]_vars
  /\ [][TakesNone =>
          /\ processed' = processed + 1
          /\ UNCHANGED <<pages, saved, queue, enqueued>>]_vars

\* C16 witness: the second page of a topic failed to parse: at the end of the
\* primary loop its document is still open with the first page only, nothing
\* was saved, and every task was marked processed once
C16_Witness ==
  /\ mn.pc = "force" /\ faults = 1 /\ saved = <<>>
  /\ processed = enqueued /\ enqueued >= 2
  /\ \E k \in Keys : pages[k].open /\ pages[k].remain = 1

--------------------------------------------------------------------------
(* Claims about walled pages (SpecWalls) *)

\* the task being scraped in this step
Scraped == queue[dequeued + 1]

\* a forum or topic page showing the login form or the password form is scraped
WalledStep ==
  /\ mn.pc = "crawl"
  /\ dequeued' = dequeued + 1
  /\ Scraped.kind \in {"forum", "topic"}
  /\ WallOf(site, Scraped.kind, Scraped.id) \in {"login", "password"}

\* C17: a forum or topic page that shows a login wall or a password wall
\* contributes nothing to the merger and emits no task (login wall, or no
\* password stored for its id) or exactly the one password task (password
\* stored); it emits no topic, forum or sibling task
C17_WallShortCircuits ==
  [][WalledStep =>
       /\ UNCHANGED <<pages, saved, disk>>
       /\ queue' = queue \o
            (IF /\ WallOf(site, Scraped.kind, Scraped.id) = "password"
                /\ <<Scraped.kind, Scraped.id>> \in opts.passwords
             THEN <<PasswordTask(Scraped)>>
             ELSE <<>>)]_vars

\* a login wall and a password wall with a stored password have both been
\* scraped
C17_Witness ==
  /\ \E i \in DOMAIN results :
       /\ results[i].task.kind \in {"forum", "topic"}
       /\ results[i].shown = "login"
       /\ results[i].found = <<>>
  /\ \E i \in DOMAIN results :
       /\ results[i].task.kind \in {"forum", "topic"}
       /\ results[i].shown = "password"
       /\ Len(results[i].found) = 1

\* a password task is scraped
Submission ==
  /\ mn.pc = "crawl"
  /\ dequeued' = dequeued + 1
  /\ Scraped.kind = "password"

\* the password tasks in the queue for a forum or topic
Submissions(target) ==
  {i \in DOMAIN queue : /\ queue[i].kind = "password"
                        /\ queue[i].target = target[1]
                        /\ queue[i].id = target[2]}

\* C18: a password task whose response shows an error message, a login form
\* or the password form emits no task and contributes nothing; no password
\* task emits a password task; a password that is refused is submitted at
\* most once for a walled page
C18_SubmittedOnce ==
  /\ [][Submission /\ site.answer # "none" =>
          UNCHANGED <<queue, enqueued, pages, saved, disk>>]_vars
  /\ [][Submission =>
          \A i \in DOMAIN queue' \ DOMAIN queue :
            queue'[i].kind # "password"]_vars
  /\ [](site.answer # "none" =>
          \A target \in WallTargets : Cardinality(Submissions(target)) <= 1)

\* a password was refused with the password form shown again, and the crawl
\* has come to its end
C18_Witness ==
  /\ \E i \in DOMAIN results :
       /\ results[i].task.kind = "password"
       /\ results[i].shown = "password"
       /\ results[i].found = <<>>
  /\ mn.pc = "crawl"
  /\ dequeued = Len(queue)

--------------------------------------------------------------------------
(* Claims about the paged forum and topic (SpecPaged) *)

\* the board of the scenario: 23 topics, 45 posts each, 20 to a page
IsScenario ==
  /\ site.topics = 23 /\ site.per_forum = 20
  /\ site.posts = 45 /\ site.per_topic = 20

\* the crawl has scraped every task it was given
PagedDone == mn.pc = "crawl" /\ dequeued = Len(queue)

\* the positions of the queue holding tasks of the kind with the offset
QueuedAt(kind, id, start) ==
  {i \in DOMAIN queue : queue[i] = Task(kind, id, start)}

\* the contributions the merger was given for the key
Contributions(k) == {i \in DOMAIN results : results[i].key = k}

RECURSIVE ItemsOf(_)
ItemsOf(I) ==
  IF I = {} THEN 0
  ELSE LET i == CHOOSE x \in I : TRUE
       IN  results[i].items + ItemsOf(I \ {i})

\* the saves of the key
SavesOf(k) == {i \in DOMAIN saved : saved[i].id = k}

\* C19: on the board of the scenario the crawl of forum 5 enqueues one first
\* page task for each of the 23 topics and one sibling forum task, at offset
\* 20; each topic gives three contributions, at offsets 0, 20 and 40, of 45
\* items together, and is saved once, after the third
C19_Scenario ==
  IsScenario =>
    /\ \A i \in DOMAIN queue :
         /\ queue[i].kind = "forum" => queue[i].id = 5 /\ queue[i].start \in {0, 20}
         /\ queue[i].kind = "topic" => queue[i].start \in {0, 20, 40}
    /\ \A k \in 1..23 :
         /\ Cardinality(Contributions(k)) <= 3
         /\ Cardinality(SavesOf(k)) <= 1
         /\ SavesOf(k) # {} =>
              /\ Cardinality(Contributions(k)) = 3
              /\ ItemsOf(Contributions(k)) = 45
              /\ \A i \in SavesOf(k) : Len(saved[i].data) = 45
    /\ PagedDone =>
         /\ \A k \in 1..23 :
              /\ Cardinality(QueuedAt("topic", k, 0)) = 1
              /\ {results[i].offset : i \in Contributions(k)} = {0, 20, 40}
              /\ Cardinality(SavesOf(k)) = 1
         /\ Cardinality({i \in DOMAIN queue : /\ queue[i].kind = "topic"
                                               /\ queue[i].start = 0}) = 23
         /\ {i \in DOMAIN queue : queue[i].kind = "forum"}
              = QueuedAt("forum", 5, 0) \cup QueuedAt("forum", 5, 20)
         /\ Cardinality(QueuedAt("forum", 5, 20)) = 1
         /\ Cardinality(QueuedAt("forum", 5, 0)) = 1

\* the crawl of the board of the scenario has come to its end
C19_Witness ==
  /\ IsScenario
  /\ PagedDone
  /\ Len(queue) = 71
  /\ Len(saved) = 23

--------------------------------------------------------------------------
(* Claims about the counters of the frontier (SpecCount) *)

\* every task has finished: nothing queued, nothing being fetched or
\* scraped, no call of processed() under way
AllFinished ==
  /\ queue = <<>> /\ fetching = <<>> /\ results = <<>>
  /\ gen.pc = "for" /\ mn.pc = "for"

\* C21: with processed() called from the thread of scrape() and from the
\* main thread no increment is lost: once every task has finished, processed
\* is not below enqueued.
C21_NoLostIncrement == AllFinished => processed >= enqueued

--------------------------------------------------------------------------
(* Claims about media tasks and failures of the save (Spec) *)

\* scrape_worker calls FileSaver.scrape in this step
FileScraped ==
  \E i \in ActiveParse :
    /\ parsing[i].pc = "scrape" /\ parsing[i].ok
    /\ parsing[i].task.kind = "file"
    /\ parsing' = RemoveAt(parsing, i)

\* C22: the scrape of a file task leaves the merger alone (every open
\* document, the lock, the calls of the save handler) and gives no task:
\* scrape_worker hands main None for it, whether the file was written or not.
C22_FileTaskIsLeaf ==
  [][FileScraped =>
       /\ UNCHANGED <<pages, lock, saved, queue, enqueued>>
       /\ results' = Append(results, ResultNone)]_vars

\* a file was written by a file task while a document was still open, and
\* None was handed to main for it
C22_Witness ==
  /\ disk.files # {}
  /\ \E k \in Keys : pages[k].open
  /\ results # <<>> /\ results[Len(results)] = ResultNone

\* append() calls the save handler for a completed document in this step,
\* and the handler cannot write it
SaveFails ==
  /\ Len(saved') = Len(saved) + 1
  /\ ~saved'[Len(saved')].forced
  /\ faults' = faults + 1

\* C23: when the save of a completed document fails on the filesystem, the
\* handler returns no media task, the document's entry is closed, every
\* other entry is left as it was, the lock is free afterwards, and the
\* scrape_worker call returns to main as any other (no exception, main and
\* the generator go on).
C23_SaveFailureContained ==
  [][SaveFails =>
       LET key == saved'[Len(saved')].id
           res == results'[Len(results')]
       IN  /\ Len(results') = Len(results) + 1
           /\ res.kind # "raise"
           /\ \A j \in DOMAIN res.pages : res.pages[j].kind # "file"
           /\ pages'[key] = NoDoc
           /\ \A k \in Keys \ {key} : pages'[k] = pages[k]
           /\ lock' = {}
           /\ disk' = disk
           /\ UNCHANGED <<mn, gen, queue, enqueued, processed>>]_vars

\* the save of a document with an attachment has failed while the other
\* document was open; the lock is free and main runs
C23_Witness ==
  /\ saved # <<>> /\ saved[1].id = 1
  /\ opts.save_media
  /\ disk.docs = {}
  /\ pages[2].open
  /\ lock = {}
  /\ Running

--------------------------------------------------------------------------
(* Claims about offsets and sibling pages (SpecWalls, SpecPaged) *)

\* C24: every contribution of a topic page is written at the pagination
\* offset of the page that was requested, also when the page was obtained by
\* submitting a password for a walled page of offset k > 0.
C24_ContributesAtPageOffset ==
  \A i \in DOMAIN results :
    results[i].merged => results[i].offset = results[i].page

\* the positions of the sibling page tasks among the tasks a scrape returned
SiblingsIn(found) ==
  {j \in DOMAIN found : found[j].kind \in {"forum", "topic"} /\ found[j].start > 0}

--------------------------------------------------------------------------
(* Claims about the documents an earlier run left (SpecResume) *)

\* C26: with force = 0 the topics read from the output directory at startup
\* are those of completely saved documents only: a topic that the earlier
\* run saved through force_save() alone, with remain > 0, is not among them.
C26_IndexOnlyComplete ==
  (mn.pc # "init" /\ opts.force = 0) =>
    opts.scraped_topics \cap disk.partial = {}

--------------------------------------------------------------------------
(* Claims about media tasks (SpecMedia) *)

\* the files for which a FileSaver task was enqueued
Asked == {queue[i].id : i \in DOMAIN queue}

\* C27: with media wanted, a file task is made for a file that is referred to
\* exactly when the file is not on disk or force is 2; for the attachments
\* of a topic and for the avatars of the users alike.
C27_MediaRule ==
  opts.save_media =>
    /\ mn.topic =>
         \A f \in PostFiles(Item(1, 0)) :
           f \in Asked <=> (f \notin disk.files \/ opts.force = 2)
    /\ mn.users =>
         \A f \in Avatars :
           f \in Asked <=> (f \notin disk.files \/ opts.force = 2)

--------------------------------------------------------------------------
(* Claims about the log of send_worker (SpecRetry) *)

\* the order of the severities of the logging module
SeverityRank(level) ==
  CASE level = "debug" -> 1
    [] level = "warning" -> 3
    [] level = "error" -> 4
    [] OTHER -> 0

\* send_worker has left its loop with every attempt failed
Exhausted ==
  /\ sw.pc = "returned" /\ sw.result = "None"
  /\ sw.retry = max_retries

\* C28: once the retries are exhausted, the failure of a file task is logged
\* at a severity strictly below that of the failure of a forum, topic, users
\* or password task.
C28_MediaFailureQuieter ==
  (Exhausted /\ sw.r = "file") =>
    \A kind \in TaskKinds \ {"file"} :
      SeverityRank(sw.log) < SeverityRank(ExhaustedSeverity(kind))

--------------------------------------------------------------------------
(* Claims about the lock and the entries of the merger in a crawl (Spec) *)

\* the lock is held although no operation of the merger is under way (in
\* Spec each of them runs from acquire() to release() in one step)
LockLeft == lock # {}

\* C29: every operation of PageMerger releases the lock on every way out,
\* also when append() is given a key without an open document: the lock is
\* never left held by an operation that has ended.
C29_LockReleasedOnEveryPath == ~LockLeft

\* the scrape of the topic page of a later offset held by parsing[i] calls
\* page_merger.append() in this step
LaterPageAppends(i) ==
  /\ parsing[i].ok /\ parsing[i].task.kind = "topic"
  /\ parsing[i].task.start # 0
  /\ parsing' = RemoveAt(parsing, i)
  /\ <<pages, lock, saved>>' # <<pages, lock, saved>>

\* C30: append() is called only for a key that has an open document: no page
\* of offset > 0 is scraped after its document was saved and removed.
C30_AppendOnlyToOpen ==
  [][\A i \in ActiveParse :
       LaterPageAppends(i) => pages[parsing[i].task.id].open]_vars

--------------------------------------------------------------------------
(* Claims about the slots of a document (SpecMergeTwice) *)

\* the empty slots of a slot array
EmptySlots(d) == {i \in DOMAIN d : d[i] = None}

\* C31: for every open document remain is the number of its slots that are
\* still empty, and a document saved by append() (remain <= 0, not by
\* force_save) has no empty slot.
C31_RemainCountsEmptySlots ==
  /\ \A k \in Keys :
       pages[k].open => pages[k].remain = Cardinality(EmptySlots(pages[k].data))
  /\ \A i \in DOMAIN saved :
       ~saved[i].forced => EmptySlots(saved[i].data) = {}


(* Claims about the order of enqueue() and processed() in main (Spec) *)

\* main holds tasks a scraped page produced that enqueue() has not put yet
ChildrenWaiting ==
  /\ mn.pc \in {"p_put", "p_queue", "m_put", "m_queue"}
  /\ mn.pages # <<>>

\* C32: main enqueues the tasks a page produced before it marks the page's
\* task processed: the frontier never looks drained (queue empty and
\* processed >= enqueued) while children are still waiting to be enqueued.
C32_NotDrainedWhileChildrenWait ==
  ChildrenWaiting => ~IsDone(queue, processed, enqueued)

====
